---- MODULE Spec2Model ----
(***************************************************************************)
(* Brightspace role-permissions exporter (brightspace_role_exporter_v3.py). *)
(* The model follows the Streamlit script: the credential check, the two    *)
(* role-discovery strategies, the per-role export worker with its retry     *)
(* loop, and the batch loop that fills the archive and the log.             *)
(*                                                                          *)
(* Text is modelled as a sequence of strings: a display name or a filename  *)
(* is a sequence of one-character strings, a message is a sequence of       *)
(* fragments, and an f-string is the concatenation of its parts.            *)
(***************************************************************************)
EXTENDS Integers, Sequences, FiniteSets, TLC

\* ------------------------------------------------------------------ bounds

\* Longest role list handed to the batch loop (SpecBatch).
MaxBatchRoles == 2
\* Longest roles payload the API answers with, and most anchors one walk
\* collects, in the whole-application specification (Spec).
MaxRunRoles == 1
\* Largest "Retries on Failure" value drawn in SpecBatch.
MaxBatchRetries == 1
\* Distinct role-list pages the site can serve in Spec / in SpecScrape.
RunSitePages == 1
ScrapeSitePages == 52
\* Most anchors one page carries, and most anchors one walk collects (SpecScrape).
MaxAnchorsPerPage == 2
MaxScrapedRoles == 2
\* Export runs started in one behaviour of Spec.
MaxRuns == 1
\* Most role anchors on the one page of the de-duplication specification.
MaxDedupRoles == 4
\* Most roles of a batch, and most seconds a batch takes, in the
\* specification of the ETA line.
MaxEtaRoles == 3
\* Longest role name in the specification of the file names.
MaxNameLen == 3
MaxElapsed == 3
\* Most roles of a batch in the specification of the archive's names.
MaxArchiveRoles == 2

\* ------------------------------------------------------- program constants

\* max_pages_to_scrape
MaxPagesToScrape == 50
\* st.number_input('Retries on Failure', min_value=0, max_value=5, ...)
MaxRetriesInput == 5
\* st.number_input('Retries on Failure', ..., value=2)
RetriesDefault == 2
\* time.sleep(3)
RetryPauseSeconds == 3

\* ----------------------------------------------------------------- text

Range(s) == {s[k] : k \in 1..Len(s)}

RECURSIVE Digits(_)
\* str(n) for n >= 0, one character per decimal digit.
Digits(n) ==
    LET d == <<"0", "1", "2", "3", "4", "5", "6", "7", "8", "9">>
    IN  IF n < 10 THEN <<d[n + 1]>> ELSE Digits(n \div 10) \o <<d[(n % 10) + 1]>>

Whitespace == {" "}

RECURSIVE LStrip(_)
LStrip(s) == IF s # <<>> /\ Head(s) \in Whitespace THEN LStrip(Tail(s)) ELSE s

RECURSIVE RStrip(_)
RStrip(s) ==
    IF s # <<>> /\ s[Len(s)] \in Whitespace THEN RStrip(SubSeq(s, 1, Len(s) - 1)) ELSE s

\* str.strip()
Strip(s) == RStrip(LStrip(s))

RECURSIVE RStripSlash(_)
\* str.rstrip('/')
RStripSlash(s) ==
    IF s # <<>> /\ s[Len(s)] = "/" THEN RStripSlash(SubSeq(s, 1, Len(s) - 1)) ELSE s

\* normalize_url: (url or '').strip().rstrip('/')
normalize_url(url) == RStripSlash(Strip(url))

\* The character class [A-Za-z0-9_. -] of sanitize_filename.
SafeChars ==
    {"A", "B", "C", "D", "E", "F", "G", "H", "I", "J", "K", "L", "M",
     "N", "O", "P", "Q", "R", "S", "T", "U", "V", "W", "X", "Y", "Z",
     "a", "b", "c", "d", "e", "f", "g", "h", "i", "j", "k", "l", "m",
     "n", "o", "p", "q", "r", "s", "t", "u", "v", "w", "x", "y", "z",
     "0", "1", "2", "3", "4", "5", "6", "7", "8", "9",
     "_", ".", " ", "-"}

RECURSIVE SubEach(_, _)
\* re.sub(r'[^A-Za-z0-9_. -]', '_', s), the pattern without the '+', would
\* replace character by character.
SubEach(s, inRun) ==
    IF s = <<>> THEN <<>>
    ELSE <<IF Head(s) \in SafeChars THEN Head(s) ELSE "_">> \o SubEach(Tail(s), inRun)

RECURSIVE SubRuns(_, _)
\* re.sub(r'[^A-Za-z0-9_. -]+', '_', s): every maximal run of characters
\* outside the class becomes one '_'. inRun: the previous character was
\* part of a run already replaced.
SubRuns(s, inRun) ==
    IF s = <<>> THEN <<>>
    ELSE IF Head(s) \in SafeChars THEN <<Head(s)>> \o SubRuns(Tail(s), FALSE)
    ELSE IF inRun THEN SubRuns(Tail(s), TRUE)
    ELSE <<"_">> \o SubRuns(Tail(s), TRUE)

\* sanitize_filename(name, default)
sanitize_filename(name, default) ==
    LET safe_name == SubRuns(Strip(name), FALSE)
    IN  IF safe_name # <<>> THEN safe_name ELSE default

\* f'role_{role_id}'
RoleFallbackName(role_id) == <<"r", "o", "l", "e", "_">> \o Digits(role_id)

\* A file name made of the safe name alone.
OutputFilenameOfName(role_id, role_name) ==
    LET fallback == RoleFallbackName(role_id)
        safe_name == sanitize_filename(IF role_name # <<>> THEN role_name ELSE fallback,
                                       fallback)
    IN  safe_name \o <<".", "t", "x", "t">>

\* output_filename = f"{safe_name}_{role_id}.txt"
OutputFilename(role_id, role_name) ==
    LET fallback == RoleFallbackName(role_id)
        safe_name == sanitize_filename(IF role_name # <<>> THEN role_name ELSE fallback,
                                       fallback)
    IN  safe_name \o <<"_">> \o Digits(role_id) \o <<".", "t", "x", "t">>


RECURSIVE SubSemis(_)
\* re.sub(r'\s*;\s*', '; ', value): a ';' with the whitespace around it
\* becomes the fragment "; ".
SubSemis(s) ==
    IF s = <<>> THEN <<>>
    ELSE LET t == LStrip(s)
         IN  IF t # <<>> /\ Head(t) = ";"
             THEN <<"; ">> \o SubSemis(LStrip(Tail(t)))
             ELSE <<Head(s)>> \o SubSemis(Tail(s))

\* value.lower().startswith('cookie:'), on a text whose label is one fragment.
CookieLabels == {"Cookie:", "cookie:", "COOKIE:"}

\* normalize_cookie
normalize_cookie(value) ==
    IF value = <<>> THEN <<>>
    ELSE LET v == Strip(value)
             w == IF v # <<>> /\ Head(v) \in CookieLabels THEN Strip(Tail(v)) ELSE v
         IN  SubSemis(w)

RECURSIVE ParseInt(_)
\* int(match.group(1)) on a sequence of decimal digits.
ParseInt(ds) ==
    LET val == [c \in {"0", "1", "2", "3", "4", "5", "6", "7", "8", "9"} |->
                  CASE c = "0" -> 0 [] c = "1" -> 1 [] c = "2" -> 2 [] c = "3" -> 3
                    [] c = "4" -> 4 [] c = "5" -> 5 [] c = "6" -> 6 [] c = "7" -> 7
                    [] c = "8" -> 8 [] c = "9" -> 9]
    IN  IF ds = <<>> THEN 0
        ELSE ParseInt(SubSeq(ds, 1, Len(ds) - 1)) * 10 + val[ds[Len(ds)]]

\* ------------------------------------------------------------ input values

\* A host URL is a sequence of fragments: whitespace, a scheme with its
\* "://", a host name, "/" characters.
SafeHostInput == <<" ", "https://", "school.example.com", "/", " ">>
LoopbackHostInput == <<"http://", "localhost", "/">>
HostInputs == {<<>>, SafeHostInput, LoopbackHostInput}

CookieInput == <<"Cookie:", " ", "d2lSessionVal=SECRET", " ", ";", " ", "d2lSecureSessionVal=SECRET2", " ">>
CookieInputs == {<<>>, CookieInput}

D2LMonitor == <<"D", "2", "L", "M", "o", "n", "i", "t", "o", "r">>

Role(id, name) == [Identifier |-> id, DisplayName |-> name]

\* Roles the roles API may answer with (identifier, display name).
ApiRolePool ==
    {Role(5, <<"T", "A">>), Role(7, <<"T", "!">>), Role(9, D2LMonitor)}

\* Roles of a selected role list: names that sanitize to the same text, an
\* empty name, a repeated identifier.
BatchRolePool ==
    {Role(5, <<"T", "!">>), Role(7, <<"T", "?">>), Role(7, <<>>), Role(12, <<" ", "T", "A">>)}

\* Roles whose file names come close: one display name under two
\* identifiers, names that sanitize to the same text, a name that ends in
\* "_" and digits, an empty name, and two names under one identifier.
ArchiveRolePool ==
    {Role(5, <<"T", "!">>), Role(7, <<"T", "!">>), Role(7, <<"T", "?">>),
     Role(1, <<"T", "_", "1">>), Role(11, <<"T">>), Role(1, <<>>)}

\* Anchors a role-list page may carry: the digits of roleId= and the text.
Anchor(digits, text) == [digits |-> digits, text |-> text]
AnchorPool ==
    {Anchor(<<"5">>, <<"T", "A">>), Anchor(<<"0", "5">>, <<>>),
     Anchor(<<"7">>, <<"T", "!">>)}

\* All sequences over S of length at most n.
SeqsUpTo(S, n) == UNION {[1..k -> S] : k \in 0..n}

\* Downloaded file contents; None is what a failed export returns.
FileContents == {<<>>, <<"r">>}
None == <<"None">>

\* No URL (Python None) and the start URL of the page walk; the other pages
\* of the role list are numbered from 1.
NoUrl == -1
StartUrl == 0


\* ---------------------------------------------------------------- state

VARIABLES
    \* widget values of the page
    host_url, cookie_header_value, number_of_retries, exclude_d2lmonitor_role,
    \* the import of Playwright succeeded
    PLAYWRIGHT_AVAILABLE,
    \* the remote site: [pages: how many role-list pages it has,
    \*                   max_roles: how many roles its pages carry in all,
    \*                   clock: the most seconds time.time() advances in a run]
    site,
    \* position of the script run; "idle" is a finished run awaiting a click
    pc,
    \* export runs started since the initial state
    runs,
    \* st.session_state: the keys present and their values
    session_state,
    \* the last st.error / st.success message shown
    ui_message,
    \* the script run ended in an exception no handler caught
    uncaught,
    \* kinds of network request issued so far
    net_calls,
    \* discovery strategies invoked by the current run, in order, kept until
    \* the run leaves discovery
    strategies,
    roles_dataframe,
    \* locals of fetch_roles_via_ui_scrape; fetch_log lists the URLs requested
    \* and page_start is len(roles) when the last requested page was requested
    roles, seen_urls, current_url, page_i, fetch_log, page_start, scrape_error,
    \* locals of the submit handler's export block
    role_list, export_log, zip_archive, success_count, failure_count, index, browser,
    \* time.time() - start_time in seconds as last computed (line 416), and the
    \* text last written to status_area (line 419)
    elapsed, status_caption,
    \* locals of export_one_role_v2 (attempt, last_error_message, file_data),
    \* the number of temporary files on disk, and of the current call: the
    \* seconds slept, the outcome of each finished attempt, the value returned
    attempt, last_error_message, file_data, temp_files, sleeps, attempt_log,
    result

inputs == <<host_url, cookie_header_value, number_of_retries,
            exclude_d2lmonitor_role, PLAYWRIGHT_AVAILABLE, site>>
scrape_vars == <<roles, seen_urls, current_url, page_i, fetch_log, page_start,
                 scrape_error>>
batch_vars == <<role_list, export_log, zip_archive, success_count, failure_count,
                index, browser, elapsed, status_caption>>
worker_vars == <<attempt, last_error_message, file_data, temp_files, sleeps,
                 attempt_log, result>>
vars == <<inputs, pc, runs, session_state, ui_message, uncaught, net_calls,
          strategies, roles_dataframe, scrape_vars, batch_vars, worker_vars>>

\* ------------------------------------------------------ credential check

WhoamiResponses ==
    {[kind |-> "response", status_code |-> 200, text |-> "Ada Lovelace"],
     [kind |-> "response", status_code |-> 401, text |-> ""],
     [kind |-> "exception", status_code |-> 0,
      text |-> "ConnectionError: Max retries exceeded with url: /d2l/api/lp/1.48/users/whoami"]}

\* check_whoami: the dictionary it returns for a response or a
\* requests.RequestException.
check_whoami(resp) ==
    IF resp.kind = "exception"
    THEN [status |-> "fail", message |-> <<"Network error: ", resp.text>>]
    ELSE IF resp.status_code = 200
    THEN [status |-> "success",
          message |-> <<"Authentication successful for: ", resp.text>>]
    ELSE [status |-> "fail",
          message |-> <<"Authentication failed (Status ">> \o Digits(resp.status_code)
                      \o <<"). Expired cookie or wrong host.">>]

\* The "Verify Credentials" button: shown when both inputs are filled. The
\* user verifies before the first export run, as the page's guide tells.
VerifyCredentials ==
    /\ pc = "idle"
    /\ runs = 0
    /\ host_url # <<>> /\ cookie_header_value # <<>>
    /\ \E resp \in WhoamiResponses : ui_message' = check_whoami(resp).message
    /\ net_calls' = net_calls \cup {"whoami"}
    /\ UNCHANGED <<inputs, pc, runs, session_state, uncaught, strategies,
                   roles_dataframe, scrape_vars, batch_vars, worker_vars>>

\* ------------------------------------------------------------- discovery

\* A handler written as "except requests.RequestException" would catch these.
DiscoveryExceptCatchesRequests(type) == type \in {"ConnectionError", "HTTPError"}

\* Which exceptions the handler "except Exception" of the two discovery
\* functions catches: every exception type.
DiscoveryExceptCatches(type) == TRUE

ApiResponses ==
    {[kind |-> k, roles |-> <<>>] :
        k \in {"transport_error", "http_error", "malformed_json", "not_a_list"}}
    \cup {[kind |-> "ok", roles |-> rs] : rs \in SeqsUpTo(ApiRolePool, site.max_roles)}

\* The try block of fetch_roles_via_api: the exception it raises ("" for
\* none) and the frame it builds.
FetchRolesApiBody(resp) ==
    CASE resp.kind = "transport_error" -> [raised |-> "ConnectionError", value |-> <<>>]
      [] resp.kind = "http_error" -> [raised |-> "HTTPError", value |-> <<>>]
      [] resp.kind = "malformed_json" -> [raised |-> "JSONDecodeError", value |-> <<>>]
      [] resp.kind = "not_a_list" -> [raised |-> "AttributeError", value |-> <<>>]
      [] OTHER -> [raised |-> "",
                   value |-> [k \in 1..Len(resp.roles) |->
                                Role(resp.roles[k].Identifier, resp.roles[k].DisplayName)]]

\* fetch_roles_via_api: a caught exception gives the empty frame.
fetch_roles_via_api(resp) ==
    LET r == FetchRolesApiBody(resp)
    IN  IF r.raised # "" /\ DiscoveryExceptCatches(r.raised)
        THEN [raised |-> "", value |-> <<>>]
        ELSE r

\* f'Role_{match.group(1)}' when the anchor has no text.
RoleFromAnchor(a) ==
    Role(ParseInt(a.digits),
         IF a.text # <<>> THEN a.text ELSE <<"R", "o", "l", "e", "_">> \o a.digits)

\* What one GET of a role-list page may bring: a transport error, an error
\* status, or a page with anchors and a next link (absent, resolvable to a
\* page already requested, to this page, to the next new page of the site,
\* or not resolvable at all).
PageResponses ==
    LET room == site.max_roles - Len(roles)
        most == IF room < MaxAnchorsPerPage THEN room ELSE MaxAnchorsPerPage
        known == seen_urls \cup {current_url}
        fresh == Cardinality(known)
        targets == {NoUrl} \cup known \cup (IF fresh < site.pages THEN {fresh} ELSE {})
    IN  {[kind |-> k, anchors |-> <<>>, next |-> NoUrl] :
            k \in {"transport_error", "http_error"}}
        \cup {[kind |-> "ok", anchors |-> as, next |-> n] :
                as \in SeqsUpTo(AnchorPool, most), n \in targets}
        \cup {[kind |-> "bad_href", anchors |-> as, next |-> NoUrl] :
                as \in SeqsUpTo(AnchorPool, most)}

\* The try block of one iteration of the page walk: the exception raised
\* ("" for none), the roles list after it and the next URL.
ScrapePageBody(resp) ==
    LET found == [k \in 1..Len(resp.anchors) |-> RoleFromAnchor(resp.anchors[k])]
    IN  CASE resp.kind = "transport_error" ->
               [raised |-> "ConnectionError", roles |-> roles, next |-> current_url]
          [] resp.kind = "http_error" ->
               [raised |-> "HTTPError", roles |-> roles, next |-> current_url]
          [] resp.kind = "bad_href" ->
               [raised |-> "ValueError", roles |-> roles \o found, next |-> current_url]
          [] OTHER -> [raised |-> "", roles |-> roles \o found, next |-> resp.next]

RECURSIVE DropDuplicatesKeepLast(_, _)
\* drop_duplicates(subset=['Identifier'], keep='last') would give this.
DropDuplicatesKeepLast(rs, kept) ==
    IF rs = <<>> THEN <<>>
    ELSE IF \E k \in 2..Len(rs) : rs[k].Identifier = Head(rs).Identifier
         THEN DropDuplicatesKeepLast(Tail(rs), kept)
         ELSE <<Head(rs)>> \o DropDuplicatesKeepLast(Tail(rs), kept)

RECURSIVE DropDuplicates(_, _)
\* DataFrame.drop_duplicates(subset=['Identifier']): the first row of each
\* identifier, in order. kept: identifiers of the rows before rs.
DropDuplicates(rs, kept) ==
    IF rs = <<>> THEN <<>>
    ELSE IF Head(rs).Identifier \in kept THEN DropDuplicates(Tail(rs), kept)
    ELSE <<Head(rs)>> \o DropDuplicates(Tail(rs), kept \cup {Head(rs).Identifier})

\* A return that gives up the collected roles when the walk ended in an error.
ScrapeResultOfCleanWalk(rs) ==
    IF rs # <<>> /\ scrape_error = NoUrl THEN DropDuplicates(rs, {}) ELSE <<>>

\* The frame fetch_roles_via_ui_scrape returns for the collected roles.
ScrapeResult(rs) == IF rs # <<>> THEN DropDuplicates(rs, {}) ELSE <<>>

\* A walk without the membership test of line 138.
ScrapeContinuesUnseen ==
    /\ page_i < MaxPagesToScrape
    /\ current_url # NoUrl

\* The condition under which an iteration of the page walk requests a page:
\* the range is not exhausted and line 138 does not break.
ScrapeContinues ==
    /\ page_i < MaxPagesToScrape
    /\ current_url # NoUrl
    /\ current_url \notin seen_urls

NoScrapeLocals ==
    /\ roles' = <<>>
    /\ seen_urls' = {}
    /\ current_url' = NoUrl
    /\ page_i' = 0
    /\ fetch_log' = <<>>
    /\ page_start' = 0
    /\ scrape_error' = NoUrl

NoAttemptsMessage == <<"No attempts were made.">>
NoResult == [success |-> FALSE, filename_or_message |-> <<>>, file_data |-> None]

\* A script run starts with none of the locals of the previous one; for
\* reference they keep their last values until the next run starts.
NoWorkerLocals ==
    /\ attempt' = 0
    /\ last_error_message' = NoAttemptsMessage
    /\ file_data' = None
    /\ sleeps' = 0
    /\ attempt_log' = <<>>
    /\ result' = NoResult

NoBatchLocals ==
    /\ role_list' = <<>>
    /\ export_log' = <<>>
    /\ zip_archive' = <<>>
    /\ success_count' = 0
    /\ failure_count' = 0
    /\ elapsed' = 0
    /\ status_caption' = <<>>
    /\ index' = 0
    /\ browser' = [browser EXCEPT !.state = "none"]

\* The submit button with an input missing: st.error, st.stop.
SubmitMissingInput ==
    /\ pc = "idle" /\ PLAYWRIGHT_AVAILABLE
    /\ host_url = <<>> \/ cookie_header_value = <<>>
    /\ ui_message' = <<"Please provide both Host URL and Cookie Header.">>
    /\ UNCHANGED <<inputs, pc, runs, session_state, uncaught, net_calls, strategies,
                   roles_dataframe, scrape_vars, batch_vars, worker_vars>>

\* A submit handler without the loop of lines 350-352.
KeptSessionState(ss) == ss

\* for key in ['export_zip_buffer', 'export_log', 'success_count']: del
\* st.session_state[key] if present (lines 350-352)
ClearedSessionState(ss) ==
    [keys |-> ss.keys \ {"export_zip_buffer", "export_log", "success_count"},
     export_zip_buffer |-> <<>>, export_log |-> <<>>, success_count |-> 0]

\* The submit button: the previous results are deleted from the session
\* state and discovery starts.
SubmitExport ==
    /\ pc = "idle" /\ PLAYWRIGHT_AVAILABLE
    /\ host_url # <<>> /\ cookie_header_value # <<>>
    /\ runs < MaxRuns
    /\ runs' = runs + 1
    /\ session_state' = ClearedSessionState(session_state)
    /\ ui_message' = <<"Fetching role list...">>
    /\ uncaught' = FALSE
    /\ strategies' = <<>>
    /\ roles_dataframe' = <<>>
    /\ pc' = "fetch_api"
    /\ NoScrapeLocals
    /\ NoBatchLocals
    /\ NoWorkerLocals
    /\ UNCHANGED <<inputs, net_calls, temp_files>>

\* roles_dataframe = fetch_roles_via_api(...)
CallFetchRolesViaApi ==
    /\ pc = "fetch_api"
    /\ strategies' = Append(strategies, "api")
    /\ net_calls' = net_calls \cup {"roles_api"}
    /\ \E resp \in ApiResponses :
          LET r == fetch_roles_via_api(resp)
          IN  IF r.raised = ""
              THEN /\ roles_dataframe' = r.value
                   /\ pc' = "after_api"
                   /\ UNCHANGED uncaught
              ELSE /\ uncaught' = TRUE
                   /\ pc' = "idle"
                   /\ UNCHANGED roles_dataframe
    /\ UNCHANGED <<inputs, runs, session_state, ui_message, scrape_vars, batch_vars,
                   worker_vars>>

\* A caller that also falls back when the API yields a single role.
ApiYieldedLittle == Len(roles_dataframe) <= 1

\* if roles_dataframe.empty: (line 361)
ApiYieldedNothing == roles_dataframe = <<>>

\* The caller enters fetch_roles_via_ui_scrape when the API frame is empty.
FallbackToScrape ==
    /\ pc = "after_api"
    /\ ApiYieldedNothing
    /\ ui_message' = <<"API role discovery returned no data. Attempting UI scraping...">>
    /\ strategies' = Append(strategies, "scrape")
    /\ roles' = <<>>
    /\ seen_urls' = {}
    /\ current_url' = StartUrl
    /\ page_i' = 0
    /\ fetch_log' = <<>>
    /\ page_start' = 0
    /\ scrape_error' = NoUrl
    /\ pc' = "scrape_loop"
    /\ UNCHANGED <<inputs, runs, session_state, uncaught, net_calls, roles_dataframe,
                   batch_vars, worker_vars>>

\* The API frame is not empty: no scrape.
SkipScrape ==
    /\ pc = "after_api"
    /\ ~ApiYieldedNothing
    /\ pc' = "discovered"
    /\ UNCHANGED <<inputs, runs, session_state, ui_message, uncaught, net_calls,
                   strategies, roles_dataframe, scrape_vars, batch_vars, worker_vars>>

\* One iteration of the page walk that requests current_url.
ScrapeFetchPage ==
    /\ pc = "scrape_loop"
    /\ ScrapeContinues
    /\ seen_urls' = seen_urls \cup {current_url}
    /\ fetch_log' = Append(fetch_log, current_url)
    /\ net_calls' = net_calls \cup {"role_list_page"}
    /\ page_start' = Len(roles)
    /\ \E resp \in PageResponses :
          LET r == ScrapePageBody(resp)
          IN  /\ roles' = r.roles
              /\ IF r.raised = ""
                 THEN /\ current_url' = r.next
                      /\ page_i' = page_i + 1
                      /\ UNCHANGED <<pc, scrape_error, uncaught>>
                 ELSE IF DiscoveryExceptCatches(r.raised)
                 THEN /\ scrape_error' = current_url
                      /\ pc' = "scrape_return"
                      /\ UNCHANGED <<current_url, page_i, uncaught>>
                 ELSE /\ uncaught' = TRUE
                      /\ pc' = "idle"
                      /\ UNCHANGED <<current_url, page_i, scrape_error>>
    /\ UNCHANGED <<inputs, runs, session_state, ui_message, strategies,
                   roles_dataframe, batch_vars, worker_vars>>

\* The walk ends without a request: the range is exhausted, or there is no
\* current URL, or it was requested before.
ScrapeLoopExit ==
    /\ pc = "scrape_loop"
    /\ ~ScrapeContinues
    /\ pc' = "scrape_return"
    /\ UNCHANGED <<inputs, runs, session_state, ui_message, uncaught, net_calls,
                   strategies, roles_dataframe, scrape_vars, batch_vars, worker_vars>>

\* return pd.DataFrame(roles).drop_duplicates(...) if roles else pd.DataFrame()
ScrapeReturn ==
    /\ pc = "scrape_return"
    /\ roles_dataframe' = ScrapeResult(roles)
    /\ pc' = "discovered"
    /\ UNCHANGED <<inputs, runs, session_state, ui_message, uncaught, net_calls,
                   strategies, scrape_vars, batch_vars, worker_vars>>

\* Neither strategy found a role: st.error, st.stop.
NoRolesDiscovered ==
    /\ pc = "discovered"
    /\ roles_dataframe = <<>>
    /\ ui_message' = <<"Fatal: Could not discover any roles. Please check your Cookie permissions or Org Unit ID.">>
    /\ pc' = "idle"
    /\ NoScrapeLocals
    /\ strategies' = <<>>
    /\ UNCHANGED <<inputs, runs, session_state, uncaught, net_calls,
                   roles_dataframe, batch_vars, worker_vars>>


\* ------------------------------------------------------------ export worker

\* str(exception) of the exceptions the browser and the file system raise:
\* Playwright's messages quote the URL being loaded.
ExceptionText(type) ==
    CASE type = "ZeroDivisionError" -> "float division by zero"
      [] type = "TimeoutError" ->
           "Timeout 45000ms exceeded. navigating to \"https://school.example.com/d2l/lp/security/export_preview.d2l?roleId=5&ou=6606\""
      [] type = "Error" ->
           "net::ERR_ABORTED at https://school.example.com/d2l/lp/security/export_file.d2l?roleId=5&ou=6606"
      [] OTHER -> "[Errno 28] No space left on device: '/tmp/tmpk3v9x1'"

Exception(type) == [type |-> type, text |-> ExceptionText(type)]

\* PlaywrightTimeoutError and the other errors of the browser; OSError of the
\* file system.
BrowserExceptions == {Exception("TimeoutError"), Exception("Error")}
DiskExceptions == {Exception("OSError")}

\* The role the batch loop is at: role_list[index], enumerate counting from 1.
CurrentRole == role_list[index]

\* last_error_message = f'Failed to export role {role_id} ({role_name}) on
\* attempt {attempt + 1}: {exception}'
FailureMessage(role_id, role_name, att, exception) ==
    <<"Failed to export role ">> \o Digits(role_id) \o <<" (">> \o role_name
      \o <<") on attempt ">> \o Digits(att + 1) \o <<": ", exception.text>>

\* A range of max_retries + 2 attempts.
AttemptsRemainInclusive == attempt <= number_of_retries

\* for attempt in range(max_retries + 1): whether another attempt follows
\* the one that failed.
AttemptsRemain == attempt < number_of_retries

\* A handler that sleeps after every failed attempt.
PauseAfterEveryFailure == TRUE

\* if attempt < max_retries: time.sleep(3) (lines 199-200)
PauseBeforeRetry == attempt < number_of_retries

\* A handler written as "except PlaywrightTimeoutError" would catch these.
WorkerExceptCatchesTimeouts(type) == type = "TimeoutError"

\* Which exceptions the handler "except Exception" of export_one_role_v2
\* catches: every exception type.
WorkerExceptCatches(type) == TRUE

\* st.error(f"An error occurred during the browser session: {e}")
SessionErrorMessage(exception) ==
    <<"An error occurred during the browser session: ", exception.text>>

\* An exception raised inside the try block of an attempt. The handler keeps
\* the message; then either the call pauses and starts the next attempt, or
\* the range is exhausted and the call returns failure. An exception the
\* handler does not catch leaves the call and the batch loop, and the
\* handler of line 438 reports it.
WorkerExcept(exception) ==
    LET message == FailureMessage(CurrentRole.role_id, CurrentRole.role_name,
                                  attempt, exception)
    IN  IF WorkerExceptCatches(exception.type)
        THEN /\ last_error_message' = message
             /\ attempt_log' = Append(attempt_log, "failed")
             /\ file_data' = None
             /\ sleeps' = IF PauseBeforeRetry THEN sleeps + RetryPauseSeconds ELSE sleeps
             /\ IF AttemptsRemain
                THEN /\ attempt' = attempt + 1
                     /\ pc' = "w_goto_preview"
                     /\ UNCHANGED result
                ELSE /\ result' = [success |-> FALSE, filename_or_message |-> message,
                                   file_data |-> None]
                     /\ pc' = "record"
                     /\ UNCHANGED attempt
             /\ UNCHANGED <<ui_message, browser>>
        ELSE /\ ui_message' = SessionErrorMessage(exception)
             /\ browser' = [browser EXCEPT !.state = "stopped"]
             /\ pc' = "idle"
             /\ UNCHANGED <<last_error_message, attempt_log, file_data, sleeps, attempt,
                            result>>

\* A step of an attempt that succeeds and leads to the step at `next`.
StepDone(next) ==
    /\ pc' = next
    /\ UNCHANGED <<attempt, last_error_message, sleeps, attempt_log, result,
                   ui_message, browser>>

worker_frame == <<inputs, runs, session_state, uncaught, strategies, roles_dataframe,
                  scrape_vars, role_list, export_log, zip_archive, success_count,
                  failure_count, index, elapsed, status_caption>>

\* page.goto(preview_url, wait_until='domcontentloaded', timeout=page_timeout)
GotoPreview ==
    /\ pc = "w_goto_preview"
    /\ net_calls' = net_calls \cup {"browser"}
    /\ \/ StepDone("w_wait_button") /\ UNCHANGED file_data
       \/ \E e \in BrowserExceptions : WorkerExcept(e)
    /\ UNCHANGED <<worker_frame, temp_files>>

\* export_button.wait_for(state='visible', timeout=8000): the button shows,
\* or the wait times out and the inner handler takes over, or it fails
\* otherwise.
WaitExportButton ==
    /\ pc = "w_wait_button"
    /\ \/ StepDone("w_click_button") /\ UNCHANGED file_data
       \/ StepDone("w_goto_file") /\ UNCHANGED file_data
       \/ WorkerExcept(Exception("Error"))
    /\ UNCHANGED <<worker_frame, net_calls, temp_files>>

\* export_button.click(): a click that times out is caught by the same inner
\* handler as the wait.
ClickExportButton ==
    /\ pc = "w_click_button"
    /\ \/ StepDone("w_wait_link") /\ UNCHANGED file_data
       \/ StepDone("w_goto_file") /\ UNCHANGED file_data
       \/ WorkerExcept(Exception("Error"))
    /\ UNCHANGED <<worker_frame, net_calls, temp_files>>

\* except PlaywrightTimeoutError: page.goto(file_url, ...)
GotoFile ==
    /\ pc = "w_goto_file"
    /\ \/ StepDone("w_wait_link") /\ UNCHANGED file_data
       \/ \E e \in BrowserExceptions : WorkerExcept(e)
    /\ UNCHANGED <<worker_frame, net_calls, temp_files>>

\* link_locator.wait_for(state='visible', timeout=link_timeout)
WaitDownloadLink ==
    /\ pc = "w_wait_link"
    /\ \/ StepDone("w_download") /\ UNCHANGED file_data
       \/ \E e \in BrowserExceptions : WorkerExcept(e)
    /\ UNCHANGED <<worker_frame, net_calls, temp_files>>

\* with page.expect_download(...): link_locator.click(); download_info.value
ClickAndDownload ==
    /\ pc = "w_download"
    /\ \/ StepDone("w_tmp_create") /\ UNCHANGED file_data
       \/ \E e \in BrowserExceptions : WorkerExcept(e)
    /\ UNCHANGED <<worker_frame, net_calls, temp_files>>

\* tempfile.NamedTemporaryFile(delete=False)
CreateTempFile ==
    /\ pc = "w_tmp_create"
    /\ \/ /\ StepDone("w_save") /\ UNCHANGED file_data
          /\ temp_files' = temp_files + 1
       \/ /\ \E e \in DiskExceptions : WorkerExcept(e)
          /\ UNCHANGED temp_files
    /\ UNCHANGED <<worker_frame, net_calls>>

\* download.save_as(temporary_file_path); the with block closes the file
SaveDownload ==
    /\ pc = "w_save"
    /\ \/ StepDone("w_read") /\ UNCHANGED file_data
       \/ WorkerExcept(Exception("Error"))
    /\ UNCHANGED <<worker_frame, net_calls, temp_files>>

\* with open(temporary_file_path, 'rb') as file_handle: file_data =
\* file_handle.read(), the bytes the download saved
ReadBack ==
    /\ pc = "w_read"
    /\ \/ /\ StepDone("w_remove")
          /\ \E content \in FileContents : file_data' = content
       \/ \E e \in DiskExceptions : WorkerExcept(e)
    /\ UNCHANGED <<worker_frame, net_calls, temp_files>>

\* os.remove(temporary_file_path); return True, output_filename, file_data
RemoveTempAndReturn ==
    /\ pc = "w_remove"
    /\ \/ /\ temp_files' = temp_files - 1
          /\ result' = [success |-> TRUE,
                        filename_or_message |->
                            OutputFilename(CurrentRole.role_id, CurrentRole.role_name),
                        file_data |-> file_data]
          /\ attempt_log' = Append(attempt_log, "ok")
          /\ pc' = "record"
          /\ UNCHANGED <<attempt, last_error_message, file_data, sleeps, ui_message,
                         browser>>
       \/ /\ \E e \in DiskExceptions : WorkerExcept(e)
          /\ UNCHANGED temp_files
    /\ UNCHANGED <<worker_frame, net_calls>>

\* ------------------------------------------------------------- batch loop

\* roles_dataframe[roles_dataframe['DisplayName'] != 'D2LMonitor']
RECURSIVE ExcludeMonitor(_)
ExcludeMonitor(frame) ==
    IF frame = <<>> THEN <<>>
    ELSE IF Head(frame).DisplayName = D2LMonitor THEN ExcludeMonitor(Tail(frame))
         ELSE <<Head(frame)>> \o ExcludeMonitor(Tail(frame))

\* role_list = [(int(row['Identifier']), str(row['DisplayName'])) for ...]
RoleListOf(frame) ==
    [k \in 1..Len(frame) |->
        [role_id |-> frame[k].Identifier, role_name |-> frame[k].DisplayName]]

\* {'RoleID': role_id, 'RoleName': role_name, 'Status': ..., 'Details': ...}
LogEntry(role, status, details) ==
    [RoleID |-> role.role_id, RoleName |-> role.role_name, Status |-> status,
     Details |-> details]

\* Truth value of the bytes returned by the worker: None and b'' are falsy.
Truthy(data) == data # None /\ data # <<>>

\* if success and file_data:
OutcomeIsSuccess(r) == r.success /\ Truthy(r.file_data)

\* Lines 369-383: the optional exclusion, the role list, the empty log and
\* counters.
PrepareRun ==
    /\ pc = "discovered"
    /\ roles_dataframe # <<>>
    /\ LET frame == IF exclude_d2lmonitor_role THEN ExcludeMonitor(roles_dataframe)
                    ELSE roles_dataframe
       IN  /\ role_list' = RoleListOf(frame)
           /\ ui_message' = <<"Ready to process ">> \o Digits(Len(frame)) \o <<" roles.">>
    /\ export_log' = <<>>
    /\ zip_archive' = <<>>
    /\ success_count' = 0
    /\ failure_count' = 0
    /\ elapsed' = 0
    /\ status_caption' = <<>>
    /\ index' = 0
    /\ NoScrapeLocals
    /\ NoWorkerLocals
    /\ strategies' = <<>>
    /\ pc' = "setup"
    /\ UNCHANGED <<inputs, runs, session_state, uncaught, net_calls,
                   roles_dataframe, browser, temp_files>>

\* playwright_instance.chromium.launch, new_context, add_cookies, new_page
\* (lines 390-396)
LaunchedBrowser(b) == [b EXCEPT !.state = "open", !.launched = @ + 1]

\* A run that returns from the loop without lines 421-423.
BrowserLeftOpen(b) == b

\* page.close(); browser_context.close(); browser.close() (lines 421-423)
ClosedBrowser(b) == [b EXCEPT !.state = "closed", !.closed = @ + 1]

\* Lines 387-398: the archive is opened, the browser launched, the cookies
\* added and the page created, or the launch raises and the handler of line
\* 438 reports it.
SetupSession ==
    /\ pc = "setup"
    /\ \/ /\ browser' = LaunchedBrowser(browser)
          /\ pc' = "loop"
          /\ UNCHANGED ui_message
       \/ /\ browser' = [browser EXCEPT !.state = "none"]
          /\ ui_message' = SessionErrorMessage(Exception("Error"))
          /\ pc' = "idle"
    /\ UNCHANGED <<inputs, runs, session_state, uncaught, net_calls, strategies,
                   roles_dataframe, scrape_vars, role_list, export_log, zip_archive,
                   success_count, failure_count, index, elapsed, status_caption,
                   worker_vars>>

\* Lines 400-406: the loop takes the next role and calls export_one_role_v2.
CallExportOneRole ==
    /\ pc = "loop"
    /\ index < Len(role_list)
    /\ index' = index + 1
    /\ NoWorkerLocals
    /\ pc' = "w_goto_preview"
    /\ UNCHANGED <<inputs, runs, session_state, ui_message, uncaught, net_calls,
                   strategies, roles_dataframe, scrape_vars, role_list, export_log,
                   zip_archive, success_count, failure_count, browser, elapsed,
                   status_caption, temp_files>>

\* rate = index / elapsed if elapsed > 0 else 0 (line 417), as a fraction of
\* integers: roles per second.
Rate(completed, secs) ==
    IF secs > 0 THEN [num |-> completed, den |-> secs] ELSE [num |-> 0, den |-> 1]

\* A guard written as "if rate >= 0".
RateIsNotNegative(rate) == rate.num >= 0

\* if rate > 0 (line 418)
RateIsPositive(rate) == rate.num > 0

\* eta = (total_roles - index) / rate if rate > 0 else 0 (line 418): the
\* exception the division raises ("" for none) and the seconds as a fraction.
Eta(total, completed, rate) ==
    IF RateIsPositive(rate)
    THEN IF rate.num = 0
         THEN [raised |-> "ZeroDivisionError", num |-> 0, den |-> 1]
         ELSE [raised |-> "", num |-> (total - completed) * rate.den, den |-> rate.num]
    ELSE [raised |-> "", num |-> 0, den |-> 1]

\* int(x) of a fraction with a positive denominator: truncation toward zero.
IntOf(q) == IF q.num >= 0 THEN q.num \div q.den ELSE 0 - ((0 - q.num) \div q.den)

\* f'{n:02d}'
TwoDigits(n) == IF n < 10 THEN <<"0">> \o Digits(n) ELSE Digits(n)

\* format_seconds_to_hms
format_seconds_to_hms(total_seconds) ==
    LET secs == IF IntOf(total_seconds) > 0 THEN IntOf(total_seconds) ELSE 0
        minutes == secs \div 60
    IN  TwoDigits(minutes \div 60) \o <<":">> \o TwoDigits(minutes % 60) \o <<":">>
          \o TwoDigits(secs % 60)

\* The text of status_area.caption (line 419).
StatusCaption(successes, failures, eta) ==
    <<"ok ">> \o Digits(successes) \o <<" | failed ">> \o Digits(failures)
      \o <<" | ETA: ">> \o format_seconds_to_hms(eta)

\* A log that keeps the successful outcomes only.
RecordedLogOfSuccesses(log, role, r) ==
    IF OutcomeIsSuccess(r)
    THEN Append(log, LogEntry(role, "Success", r.filename_or_message))
    ELSE log

\* The log after the outcome r of `role` is recorded (lines 411 and 414).
RecordedLog(log, role, r) ==
    Append(log, LogEntry(role, IF OutcomeIsSuccess(r) THEN "Success" ELSE "Failed",
                         r.filename_or_message))

\* An archive written on the success flag alone, whatever the bytes are.
RecordedArchiveOfFlag(archive, r) ==
    IF r.success
    THEN Append(archive, [name |-> r.filename_or_message, data |-> r.file_data])
    ELSE archive

\* The archive after the outcome r is recorded: zip_archive.writestr for a
\* successful one (line 410).
RecordedArchive(archive, r) ==
    IF OutcomeIsSuccess(r)
    THEN Append(archive, [name |-> r.filename_or_message, data |-> r.file_data])
    ELSE archive

\* A counter of the success flags, whatever the bytes are.
CountedSuccessesOfFlag(count, r) == IF r.success THEN count + 1 ELSE count

\* success_count += 1 in the branch of line 408 (line 409)
CountedSuccesses(count, r) == IF OutcomeIsSuccess(r) THEN count + 1 ELSE count

\* failure_count += 1 in the else branch (line 413)
CountedFailures(count, r) == IF OutcomeIsSuccess(r) THEN count ELSE count + 1

\* Lines 408-419: the outcome is counted and logged, and a successful one is
\* written to the archive; a write that raises ends the run in the handler
\* of line 438.
RecordOutcome ==
    /\ pc = "record"
    /\ \/ /\ zip_archive' = RecordedArchive(zip_archive, result)
          /\ export_log' = RecordedLog(export_log, CurrentRole, result)
          /\ success_count' = CountedSuccesses(success_count, result)
          /\ failure_count' = CountedFailures(failure_count, result)
          /\ \E secs \in elapsed..site.clock :
                LET eta == Eta(Len(role_list), index, Rate(index, secs))
                IN  /\ elapsed' = secs
                    /\ IF eta.raised = ""
                       THEN /\ status_caption' = StatusCaption(success_count',
                                                               failure_count', eta)
                            /\ pc' = "loop"
                            /\ UNCHANGED <<ui_message, browser>>
                       ELSE /\ ui_message' = SessionErrorMessage(Exception(eta.raised))
                            /\ browser' = [browser EXCEPT !.state = "stopped"]
                            /\ pc' = "idle"
                            /\ UNCHANGED status_caption
       \/ /\ OutcomeIsSuccess(result)
          /\ ui_message' = SessionErrorMessage(Exception("OSError"))
          /\ browser' = [browser EXCEPT !.state = "stopped"]
          /\ success_count' = success_count + 1
          /\ pc' = "idle"
          /\ UNCHANGED <<failure_count, zip_archive, export_log, elapsed,
                         status_caption>>
    /\ UNCHANGED <<inputs, runs, session_state, uncaught, net_calls, strategies,
                   roles_dataframe, scrape_vars, role_list, index, worker_vars>>

\* Lines 421-436: the page, context and browser are closed, the archive is
\* finished, the results are stored in the session state and the script
\* reruns; a close that raises ends the run in the handler of line 438.
FinishRun ==
    /\ pc = "loop"
    /\ index = Len(role_list)
    /\ \/ /\ browser' = ClosedBrowser(browser)
          /\ session_state' =
                [keys |-> session_state.keys
                            \cup {"export_zip_buffer", "export_log", "success_count",
                                  "base_zip_name"},
                 export_zip_buffer |-> zip_archive,
                 export_log |-> export_log,
                 success_count |-> success_count]
          /\ UNCHANGED ui_message
       \/ /\ browser' = [browser EXCEPT !.state = "stopped"]
          /\ ui_message' = SessionErrorMessage(Exception("Error"))
          /\ UNCHANGED session_state
    /\ pc' = "idle"
    /\ UNCHANGED <<inputs, runs, uncaught, net_calls, strategies, roles_dataframe,
                   scrape_vars, role_list, export_log, zip_archive, success_count,
                   failure_count, index, elapsed, status_caption, worker_vars>>

\* ------------------------------------------------------- specifications

EmptySessionState ==
    [keys |-> {}, export_zip_buffer |-> <<>>, export_log |-> <<>>, success_count |-> 0]

NoBrowser == [state |-> "none", launched |-> 0, closed |-> 0]

InitScrapeLocals ==
    /\ roles = <<>>
    /\ seen_urls = {}
    /\ current_url = NoUrl
    /\ page_i = 0
    /\ fetch_log = <<>>
    /\ page_start = 0
    /\ scrape_error = NoUrl

InitBatchLocals ==
    /\ export_log = <<>>
    /\ zip_archive = <<>>
    /\ success_count = 0
    /\ failure_count = 0
    /\ elapsed = 0
    /\ status_caption = <<>>

InitWorkerLocals ==
    /\ attempt = 0
    /\ last_error_message = NoAttemptsMessage
    /\ file_data = None
    /\ temp_files = 0
    /\ sleeps = 0
    /\ attempt_log = <<>>
    /\ result = NoResult

\* The page as first served: any host and cookie input, the retries widget
\* at its default, nothing run yet.
Init ==
    /\ host_url \in {normalize_url(h) : h \in HostInputs}
    /\ cookie_header_value \in {normalize_cookie(c) : c \in CookieInputs}
    /\ number_of_retries = RetriesDefault
    /\ exclude_d2lmonitor_role \in BOOLEAN
    /\ PLAYWRIGHT_AVAILABLE \in BOOLEAN
    /\ site = [pages |-> RunSitePages, max_roles |-> MaxRunRoles, clock |-> 0]
    /\ pc = "idle"
    /\ runs = 0
    /\ session_state = EmptySessionState
    /\ ui_message = <<>>
    /\ uncaught = FALSE
    /\ net_calls = {}
    /\ strategies = <<>>
    /\ roles_dataframe = <<>>
    /\ InitScrapeLocals
    /\ role_list = <<>>
    /\ index = 0
    /\ browser = NoBrowser
    /\ InitBatchLocals
    /\ InitWorkerLocals

Next ==
    \/ VerifyCredentials
    \/ SubmitMissingInput
    \/ SubmitExport
    \/ CallFetchRolesViaApi
    \/ FallbackToScrape
    \/ SkipScrape
    \/ ScrapeFetchPage
    \/ ScrapeLoopExit
    \/ ScrapeReturn
    \/ NoRolesDiscovered
    \/ PrepareRun
    \/ SetupSession
    \/ CallExportOneRole
    \/ GotoPreview
    \/ WaitExportButton
    \/ ClickExportButton
    \/ GotoFile
    \/ WaitDownloadLink
    \/ ClickAndDownload
    \/ CreateTempFile
    \/ SaveDownload
    \/ ReadBack
    \/ RemoveTempAndReturn
    \/ RecordOutcome
    \/ FinishRun

Spec == Init /\ [][Next]_vars


\* The values the widgets hold in the focused specifications.
InitFilledInputs ==
    /\ host_url = normalize_url(SafeHostInput)
    /\ cookie_header_value = normalize_cookie(CookieInput)
    /\ exclude_d2lmonitor_role = TRUE
    /\ PLAYWRIGHT_AVAILABLE = TRUE

\* The batch alone: the state PrepareRun leaves for a frame the roles API
\* answered with.
InitBatch ==
    /\ InitFilledInputs
    /\ number_of_retries \in 0..MaxBatchRetries
    /\ site = [pages |-> RunSitePages, max_roles |-> MaxBatchRoles, clock |-> 0]
    /\ pc = "setup"
    /\ runs = 1
    /\ session_state = EmptySessionState
    /\ uncaught = FALSE
    /\ net_calls = {"roles_api"}
    /\ strategies = <<>>
    /\ roles_dataframe \in SeqsUpTo(BatchRolePool, MaxBatchRoles) \ {<<>>}
    /\ role_list = RoleListOf(roles_dataframe)
    /\ ui_message = <<"Ready to process ">> \o Digits(Len(role_list)) \o <<" roles.">>
    /\ InitScrapeLocals
    /\ index = 0
    /\ browser = NoBrowser
    /\ InitBatchLocals
    /\ InitWorkerLocals

NextBatch ==
    \/ SetupSession
    \/ CallExportOneRole
    \/ GotoPreview
    \/ WaitExportButton
    \/ ClickExportButton
    \/ GotoFile
    \/ WaitDownloadLink
    \/ ClickAndDownload
    \/ CreateTempFile
    \/ SaveDownload
    \/ ReadBack
    \/ RemoveTempAndReturn
    \/ RecordOutcome
    \/ FinishRun

SpecBatch == InitBatch /\ [][NextBatch]_vars

\* The batch with a clock that advances: lists of one role repeated, no
\* retries.
InitEta ==
    /\ InitFilledInputs
    /\ number_of_retries = 0
    /\ site = [pages |-> RunSitePages, max_roles |-> MaxEtaRoles, clock |-> MaxElapsed]
    /\ pc = "setup"
    /\ runs = 1
    /\ session_state = EmptySessionState
    /\ uncaught = FALSE
    /\ net_calls = {"roles_api"}
    /\ strategies = <<>>
    /\ roles_dataframe \in SeqsUpTo({Role(5, <<"T", "A">>)}, MaxEtaRoles) \ {<<>>}
    /\ role_list = RoleListOf(roles_dataframe)
    /\ ui_message = <<"Ready to process ">> \o Digits(Len(role_list)) \o <<" roles.">>
    /\ InitScrapeLocals
    /\ index = 0
    /\ browser = NoBrowser
    /\ InitBatchLocals
    /\ InitWorkerLocals

NextEta == NextBatch

SpecEta == InitEta /\ [][NextEta]_vars

\* The batch over lists of roles with close file names, without retries.
InitArchive ==
    /\ InitFilledInputs
    /\ number_of_retries = 0
    /\ site = [pages |-> RunSitePages, max_roles |-> MaxArchiveRoles, clock |-> 0]
    /\ pc = "setup"
    /\ runs = 1
    /\ session_state = EmptySessionState
    /\ uncaught = FALSE
    /\ net_calls = {"roles_api"}
    /\ strategies = <<>>
    /\ roles_dataframe \in SeqsUpTo(ArchiveRolePool, MaxArchiveRoles) \ {<<>>}
    /\ role_list = RoleListOf(roles_dataframe)
    /\ ui_message = <<"Ready to process ">> \o Digits(Len(role_list)) \o <<" roles.">>
    /\ InitScrapeLocals
    /\ index = 0
    /\ browser = NoBrowser
    /\ InitBatchLocals
    /\ InitWorkerLocals

NextArchive == NextBatch

SpecArchive == InitArchive /\ [][NextArchive]_vars

\* One call of export_one_role_v2: the state CallExportOneRole leaves for
\* the only role of a list, for every value the retries widget admits.
InitWorker ==
    /\ InitFilledInputs
    /\ number_of_retries \in 0..MaxRetriesInput
    /\ site = [pages |-> RunSitePages, max_roles |-> MaxBatchRoles, clock |-> 0]
    /\ pc = "w_goto_preview"
    /\ runs = 1
    /\ session_state = EmptySessionState
    /\ uncaught = FALSE
    /\ net_calls = {"roles_api"}
    /\ strategies = <<>>
    /\ roles_dataframe \in {<<r>> : r \in BatchRolePool}
    /\ role_list = RoleListOf(roles_dataframe)
    /\ ui_message = <<"Ready to process ">> \o Digits(Len(role_list)) \o <<" roles.">>
    /\ InitScrapeLocals
    /\ index = 1
    /\ browser = [state |-> "open", launched |-> 1, closed |-> 0]
    /\ InitBatchLocals
    /\ InitWorkerLocals

NextWorker ==
    \/ GotoPreview
    \/ WaitExportButton
    \/ ClickExportButton
    \/ GotoFile
    \/ WaitDownloadLink
    \/ ClickAndDownload
    \/ CreateTempFile
    \/ SaveDownload
    \/ ReadBack
    \/ RemoveTempAndReturn

SpecWorker == InitWorker /\ [][NextWorker]_vars

\* Characters of role names: a letter, two characters outside the class of
\* sanitize_filename, the space.
NameChars == {"T", "!", "?", " "}

\* One call of export_one_role_v2 without retries, for role 5 under every
\* name of up to MaxNameLen characters.
InitNames ==
    /\ InitFilledInputs
    /\ number_of_retries = 0
    /\ site = [pages |-> RunSitePages, max_roles |-> MaxBatchRoles, clock |-> 0]
    /\ pc = "w_goto_preview"
    /\ runs = 1
    /\ session_state = EmptySessionState
    /\ uncaught = FALSE
    /\ net_calls = {"roles_api"}
    /\ strategies = <<>>
    /\ roles_dataframe \in {<<Role(5, name)>> : name \in SeqsUpTo(NameChars, MaxNameLen)}
    /\ role_list = RoleListOf(roles_dataframe)
    /\ ui_message = <<"Ready to process ">> \o Digits(Len(role_list)) \o <<" roles.">>
    /\ InitScrapeLocals
    /\ index = 1
    /\ browser = [state |-> "open", launched |-> 1, closed |-> 0]
    /\ InitBatchLocals
    /\ InitWorkerLocals

NextNames == NextWorker

SpecNames == InitNames /\ [][NextNames]_vars

\* One call of fetch_roles_via_ui_scrape against a site of many pages: the
\* state FallbackToScrape leaves.
InitScrape ==
    /\ InitFilledInputs
    /\ number_of_retries = RetriesDefault
    /\ site = [pages |-> ScrapeSitePages, max_roles |-> MaxScrapedRoles, clock |-> 0]
    /\ pc = "scrape_loop"
    /\ runs = 1
    /\ session_state = EmptySessionState
    /\ ui_message = <<"API role discovery returned no data. Attempting UI scraping...">>
    /\ uncaught = FALSE
    /\ net_calls = {"roles_api"}
    /\ strategies = <<"api", "scrape">>
    /\ roles_dataframe = <<>>
    /\ roles = <<>>
    /\ seen_urls = {}
    /\ current_url = StartUrl
    /\ page_i = 0
    /\ fetch_log = <<>>
    /\ page_start = 0
    /\ scrape_error = NoUrl
    /\ role_list = <<>>
    /\ index = 0
    /\ browser = NoBrowser
    /\ InitBatchLocals
    /\ InitWorkerLocals

NextScrape ==
    \/ ScrapeFetchPage
    \/ ScrapeLoopExit
    \/ ScrapeReturn

SpecScrape == InitScrape /\ [][NextScrape]_vars

\* The return of fetch_roles_via_ui_scrape alone: the walk requested one
\* page that carried any anchors and no next link, and is about to return.
InitDedup ==
    /\ InitFilledInputs
    /\ number_of_retries = RetriesDefault
    /\ site = [pages |-> RunSitePages, max_roles |-> MaxDedupRoles, clock |-> 0]
    /\ pc = "scrape_return"
    /\ runs = 1
    /\ session_state = EmptySessionState
    /\ ui_message = <<"API role discovery returned no data. Attempting UI scraping...">>
    /\ uncaught = FALSE
    /\ net_calls = {"roles_api", "role_list_page"}
    /\ strategies = <<"api", "scrape">>
    /\ roles_dataframe = <<>>
    /\ \E as \in SeqsUpTo(AnchorPool, MaxDedupRoles) :
          roles = [k \in 1..Len(as) |-> RoleFromAnchor(as[k])]
    /\ seen_urls = {StartUrl}
    /\ current_url = NoUrl
    /\ page_i = 1
    /\ fetch_log = <<StartUrl>>
    /\ page_start = 0
    /\ scrape_error = NoUrl
    /\ role_list = <<>>
    /\ index = 0
    /\ browser = NoBrowser
    /\ InitBatchLocals
    /\ InitWorkerLocals

NextDedup == ScrapeReturn

\* The results a completed run of one role left in the session state.
PreviousResults ==
    LET name == OutputFilename(5, <<"T", "A">>)
    IN  [keys |-> {"export_zip_buffer", "export_log", "success_count", "base_zip_name"},
         export_zip_buffer |-> <<[name |-> name, data |-> <<"r">>]>>,
         export_log |-> <<LogEntry([role_id |-> 5, role_name |-> <<"T", "A">>],
                                   "Success", name)>>,
         success_count |-> 1]

\* The page after a completed run and the rerun of line 436: the results
\* are in the session state and the download section is shown; the locals
\* of the script are those of a fresh script run.
InitRerun ==
    /\ InitFilledInputs
    /\ number_of_retries = RetriesDefault
    /\ site = [pages |-> RunSitePages, max_roles |-> MaxRunRoles, clock |-> 0]
    /\ pc = "idle"
    /\ runs = 0
    /\ session_state = PreviousResults
    /\ ui_message = <<"Export Complete!">>
    /\ uncaught = FALSE
    /\ net_calls = {"roles_api", "browser"}
    /\ strategies = <<>>
    /\ roles_dataframe = <<>>
    /\ InitScrapeLocals
    /\ role_list = <<>>
    /\ index = 0
    /\ browser = NoBrowser
    /\ InitBatchLocals
    /\ InitWorkerLocals

NextRerun ==
    \/ VerifyCredentials
    \/ SubmitExport
    \/ CallFetchRolesViaApi
    \/ FallbackToScrape
    \/ SkipScrape
    \/ ScrapeFetchPage
    \/ ScrapeLoopExit
    \/ ScrapeReturn
    \/ NoRolesDiscovered
    \/ PrepareRun
    \/ SetupSession
    \/ CallExportOneRole
    \/ GotoPreview
    \/ WaitExportButton
    \/ ClickExportButton
    \/ GotoFile
    \/ WaitDownloadLink
    \/ ClickAndDownload
    \/ CreateTempFile
    \/ SaveDownload
    \/ ReadBack
    \/ RemoveTempAndReturn
    \/ RecordOutcome
    \/ FinishRun

SpecRerun == InitRerun /\ [][NextRerun]_vars

SpecDedup == InitDedup /\ [][NextDedup]_vars

\* ----------------------------------------------------------- properties

\* The run went through to line 426: the results are in the session state.
RunCompleted == pc = "idle" /\ "export_log" \in session_state.keys

WorkerPcs ==
    {"w_goto_preview", "w_wait_button", "w_click_button", "w_goto_file", "w_wait_link",
     "w_download", "w_tmp_create", "w_save", "w_read", "w_remove"}

\* The positions of the sequence log whose entry is about the role r.
EntriesOf(log, r) ==
    {k \in 1..Len(log) : log[k].RoleID = r.role_id /\ log[k].RoleName = r.role_name}

\* C1: when a run completes, the final log has one entry for each submitted
\* role, in the order of the role list, whatever the outcome of its export:
\* no role is missing and none is logged more often than it was submitted.
EveryRoleLoggedOnce ==
    RunCompleted =>
        LET log == session_state.export_log
        IN  /\ Len(log) = Len(role_list)
            /\ \A k \in 1..Len(role_list) :
                  /\ log[k].RoleID = role_list[k].role_id
                  /\ log[k].RoleName = role_list[k].role_name
                  /\ log[k].Status \in {"Success", "Failed"}
            /\ \A r \in Range(role_list) :
                  Cardinality(EntriesOf(log, r))
                    = Cardinality({k \in 1..Len(role_list) : role_list[k] = r})

\* A completed run of two different roles, the first failed and the second
\* exported.
EveryRoleLoggedOnce_witness ==
    /\ RunCompleted
    /\ Len(role_list) = 2
    /\ role_list[1] # role_list[2]
    /\ session_state.export_log[1].Status = "Failed"
    /\ session_state.export_log[2].Status = "Success"

\* The log entries with status Success, in order.
RECURSIVE Successes(_)
Successes(log) ==
    IF log = <<>> THEN <<>>
    ELSE IF Head(log).Status = "Success" THEN <<Head(log)>> \o Successes(Tail(log))
         ELSE Successes(Tail(log))

\* The archive has one file per Success entry of the log, under the name the
\* entry gives, with bytes, and nothing else.
ArchiveMatchesLog(archive, log) ==
    LET done == Successes(log)
    IN  /\ Len(archive) = Len(done)
        /\ \A k \in 1..Len(archive) :
              /\ archive[k].name = done[k].Details
              /\ archive[k].data \in FileContents \ {<<>>}

\* Recording an outcome writes the bytes the worker returned exactly when it
\* logs Success.
RecordWritesDownload ==
    pc = "record" /\ pc' = "loop" =>
        IF export_log'[Len(export_log')].Status = "Success"
        THEN zip_archive' = Append(zip_archive, [name |-> result.filename_or_message,
                                                 data |-> result.file_data])
        ELSE zip_archive' = zip_archive

\* C2: the archive holds exactly the files of the roles logged as Success:
\* throughout the batch and in the stored results of a completed run, its
\* entries are the Success entries' file names with the downloaded bytes, and
\* a Failed role adds no entry.
ArchiveHoldsSuccessesOnly ==
    /\ [](ArchiveMatchesLog(zip_archive, export_log))
    /\ [](RunCompleted =>
            ArchiveMatchesLog(session_state.export_zip_buffer, session_state.export_log))
    /\ [][RecordWritesDownload]_vars

\* A completed run of two roles with one Failed, here for an empty download,
\* and one file in the archive.
ArchiveHoldsSuccessesOnly_witness ==
    /\ RunCompleted
    /\ Len(session_state.export_log) = 2
    /\ session_state.export_log[1].Status = "Success"
    /\ session_state.export_log[2].Status = "Failed"
    /\ Len(session_state.export_zip_buffer) = 1

\* C3: a role whose export fails gets a Failed entry and the batch goes on:
\* no step of the worker leaves the batch loop, a failure outcome is logged
\* as Failed and leads back to the loop, and the loop calls the worker for
\* the next role whenever one is left.
FailureDoesNotAbortBatch ==
    /\ [](pc = "loop" /\ index < Len(role_list) => ENABLED CallExportOneRole)
    /\ [][/\ pc \in WorkerPcs => pc' \in WorkerPcs \cup {"record"}
          /\ pc = "record" /\ ~result.success =>
                /\ pc' = "loop"
                /\ index' = index
                /\ export_log' = Append(export_log,
                                        LogEntry(CurrentRole, "Failed",
                                                 result.filename_or_message))
          /\ pc = "loop" /\ index < Len(role_list) =>
                pc' = "w_goto_preview" /\ index' = index + 1]_vars

\* The second role is being attempted after the first one failed.
FailureDoesNotAbortBatch_witness ==
    /\ pc = "w_goto_preview"
    /\ index = 2
    /\ attempt = 0
    /\ Len(export_log) = 1
    /\ export_log[1].Status = "Failed"

\* C4: a call makes at most max_retries + 1 attempts; no attempt follows a
\* successful one; the call returns success at the first attempt that
\* succeeds and failure only after exactly max_retries + 1 failed attempts.
AttemptsBounded ==
    /\ Len(attempt_log) <= number_of_retries + 1
    /\ \A k \in 1..(Len(attempt_log) - 1) : attempt_log[k] = "failed"
    /\ pc \in WorkerPcs =>
          /\ Len(attempt_log) = attempt
          /\ \A k \in 1..Len(attempt_log) : attempt_log[k] = "failed"
    /\ pc = "record" =>
          /\ attempt_log # <<>>
          /\ result.success <=> attempt_log[Len(attempt_log)] = "ok"
          /\ result.success => Len(attempt_log) = attempt + 1
          /\ ~result.success => Len(attempt_log) = number_of_retries + 1

\* With five retries, five attempts failed and the sixth succeeded.
AttemptsBounded_witness ==
    /\ number_of_retries = MaxRetriesInput
    /\ pc = "record"
    /\ result.success
    /\ Len(attempt_log) = MaxRetriesInput + 1

\* str(exception) of the exceptions an attempt can raise.
RawExceptionTexts == {ExceptionText(type) : type \in {"TimeoutError", "Error", "OSError"}}

\* C5: the failure detail the worker returns after its last attempt, and the
\* Details of every Failed entry of the log, hold no raw exception text.
FailureDetailHidesException ==
    /\ pc = "record" /\ ~result.success =>
          Range(result.filename_or_message) \cap RawExceptionTexts = {}
    /\ \A k \in 1..Len(export_log) :
          export_log[k].Status = "Failed" =>
              Range(export_log[k].Details) \cap RawExceptionTexts = {}

\* isSafeUrl of the specification, for a URL given as its scheme, its
\* hostname and the rest: the scheme is http or https, a hostname is present
\* and it is no loopback or unspecified address.
isSafeUrl(url) ==
    /\ Len(url) >= 2
    /\ url[1] \in {"http://", "https://"}
    /\ url[2] \notin {"localhost", "127.0.0.1", "::1", "0.0.0.0"}

\* C6: with an unsafe host URL no network call is ever issued: no identity
\* check, no roles API request, no scrape request, no browser navigation.
UnsafeHostMakesNoNetworkCall == ~isSafeUrl(host_url) => net_calls = {}

\* C7: discovery calls the API first and enters the scrape if and only if
\* the API frame is empty; a non-empty API frame is the discovery result and
\* no page of the role list is requested for it.
ApiFirstScrapeIffEmpty ==
    /\ [](strategies \in {<<>>, <<"api">>, <<"api", "scrape">>})
    /\ [](pc = "after_api" => strategies = <<"api">>)
    /\ [](pc \in {"scrape_loop", "scrape_return"} => strategies = <<"api", "scrape">>)
    /\ [][/\ pc = "fetch_api" => strategies = <<>> /\ strategies' \in {<<"api">>}
          /\ pc = "after_api" /\ roles_dataframe # <<>> =>
                /\ pc' = "discovered"
                /\ roles_dataframe' = roles_dataframe
                /\ strategies' = <<"api">>
                /\ net_calls' = net_calls
          /\ pc = "after_api" /\ roles_dataframe = <<>> =>
                pc' = "scrape_loop" /\ strategies' = <<"api", "scrape">>
          /\ strategies' = <<"api", "scrape">> /\ strategies # strategies' =>
                pc = "after_api" /\ roles_dataframe = <<>>
          /\ "role_list_page" \in net_calls' \ net_calls =>
                strategies = <<"api", "scrape">>]_vars

\* The API yielded nothing and the scrape that followed found roles.
ApiFirstScrapeIffEmpty_witness ==
    /\ pc = "discovered"
    /\ strategies = <<"api", "scrape">>
    /\ roles_dataframe # <<>>

\* C8: neither discovery function raises to its caller: for every error
\* response the API function returns the empty frame, and the scrape returns
\* the frame of the roles it collected before the error.
DiscoveryNeverRaises ==
    /\ uncaught = FALSE
    /\ \A resp \in ApiResponses :
          resp.kind # "ok" => fetch_roles_via_api(resp) = [raised |-> "", value |-> <<>>]
    /\ pc = "fetch_api" => ENABLED CallFetchRolesViaApi
    /\ scrape_error # NoUrl =>
          /\ pc \in {"scrape_return", "discovered"}
          /\ pc = "discovered" =>
                {r.Identifier : r \in Range(roles_dataframe)}
                  = {r.Identifier : r \in Range(roles)}

\* A scrape that failed on a page after collecting roles has returned.
DiscoveryNeverRaises_witness ==
    /\ pc = "discovered"
    /\ strategies = <<"api", "scrape">>
    /\ scrape_error # NoUrl
    /\ roles # <<>>

\* One of the three conditions that stop the walk holds.
WalkMustStop ==
    \/ current_url = NoUrl
    \/ current_url \in seen_urls
    \/ page_i = MaxPagesToScrape

\* What is left of the walk: the iterations of the range, then the return.
WalkRank ==
    CASE pc = "scrape_loop" -> 2 + (MaxPagesToScrape - page_i)
      [] pc = "scrape_return" -> 1
      [] OTHER -> 0

\* C9: the page walk requests at most 50 pages and no URL twice; it stops as
\* soon as there is no next link, the next URL was requested before or 50
\* iterations are done; it ends (every step brings the return nearer and a
\* step is possible until it has returned), and it returns the roles
\* collected so far.
ScrapeWalkBounded ==
    /\ [](/\ Len(fetch_log) <= MaxPagesToScrape
          /\ \A i, j \in 1..Len(fetch_log) : i # j => fetch_log[i] # fetch_log[j]
          /\ pc = "scrape_loop" /\ WalkMustStop =>
                ~ENABLED ScrapeFetchPage /\ ENABLED ScrapeLoopExit
          /\ pc = "scrape_return" /\ scrape_error = NoUrl => WalkMustStop
          /\ pc = "discovered" =>
                {r.Identifier : r \in Range(roles_dataframe)}
                  = {r.Identifier : r \in Range(roles)})
    /\ [](page_i <= MaxPagesToScrape /\ (pc # "discovered" => ENABLED NextScrape))
    /\ [][WalkRank' < WalkRank]_vars

\* The walk stopped at the bound of 50 iterations with a new page ahead.
ScrapeWalkBounded_witness ==
    /\ pc = "scrape_return"
    /\ page_i = MaxPagesToScrape
    /\ current_url # NoUrl
    /\ current_url \notin seen_urls

\* C10: a failure on a page stops the walk: that page is the last one
\* requested, nothing is raised, and the frame returned holds every role
\* collected from the pages before it.
ScrapeFailureKeepsEarlierRoles ==
    scrape_error # NoUrl =>
        /\ pc \in {"scrape_return", "discovered"}
        /\ uncaught = FALSE
        /\ fetch_log # <<>> /\ fetch_log[Len(fetch_log)] = scrape_error
        /\ ~ENABLED ScrapeFetchPage
        /\ page_start <= Len(roles)
        /\ pc = "discovered" =>
              /\ \A k \in 1..page_start :
                    \E j \in 1..Len(roles_dataframe) :
                        roles_dataframe[j].Identifier = roles[k].Identifier
              /\ page_start > 0 => roles_dataframe # <<>>

\* The second page or a later one failed after roles were collected, and
\* the scrape has returned.
ScrapeFailureKeepsEarlierRoles_witness ==
    /\ pc = "discovered"
    /\ scrape_error # NoUrl
    /\ page_start > 0
    /\ Len(fetch_log) >= 2

\* The positions of rs that hold the first row of their identifier.
FirstOccurrences(rs) ==
    {k \in 1..Len(rs) : \A j \in 1..(k - 1) : rs[j].Identifier # rs[k].Identifier}

\* C11: the frame the scrape returns holds each identifier once; its rows
\* are the first rows of their identifiers among the collected roles, display
\* name included, in the order in which they were collected.
ScrapeKeepsFirstOccurrence ==
    pc = "discovered" =>
        LET firsts == FirstOccurrences(roles)
        IN  /\ Len(roles_dataframe) = Cardinality(firsts)
            /\ \A i, j \in 1..Len(roles_dataframe) :
                  i # j => roles_dataframe[i].Identifier # roles_dataframe[j].Identifier
            /\ \A k \in firsts :
                  roles_dataframe[Cardinality({j \in firsts : j < k}) + 1] = roles[k]

\* Identifiers 5, 7, 5 were collected, the two rows of 5 under different
\* names, and the frame returned has two rows.
ScrapeKeepsFirstOccurrence_witness ==
    /\ pc = "discovered"
    /\ Len(roles) = 3
    /\ roles[1].Identifier = 5 /\ roles[2].Identifier = 7 /\ roles[3].Identifier = 5
    /\ roles[1].DisplayName # roles[3].DisplayName
    /\ Len(roles_dataframe) = 2

\* if 'export_zip_buffer' in st.session_state: the download section with the
\* archive and the log is shown (line 442).
ArchiveAvailable == "export_zip_buffer" \in session_state.keys

\* The messages of the handler of line 438.
SessionErrorMessages ==
    {SessionErrorMessage(Exception(type)) : type \in {"TimeoutError", "Error", "OSError"}}

\* The export block is left either by storing the results or through the
\* handler of line 438, which shows the error and stores nothing.
RunEndsCompletedOrReported ==
    (pc \in ({"setup", "loop", "record"} \cup WorkerPcs) /\ pc' = "idle") =>
        \/ RunCompleted' /\ ArchiveAvailable'
        \/ /\ ui_message' \in SessionErrorMessages
           /\ ~ArchiveAvailable'
           /\ index' = index
           /\ export_log' = export_log

\* C12: a run that ends in a failure of the browser session or of the
\* archive is over, its error is shown, and neither archive nor log is in
\* the session state, those of an earlier run included; nothing is available
\* while a run is under way, and a run ends only by completing or by
\* reporting its error.
FatalFailureLeavesNoArchive ==
    /\ [](pc = "idle" /\ ui_message \in SessionErrorMessages =>
            ~ArchiveAvailable /\ "export_log" \notin session_state.keys)
    /\ [](pc # "idle" => ~ArchiveAvailable /\ "export_log" \notin session_state.keys)
    /\ [][RunEndsCompletedOrReported]_vars

\* After a completed run, a second run failed at the launch of the browser:
\* its error is shown and the archive of the first run is gone.
FatalFailureLeavesNoArchive_witness ==
    /\ pc = "idle"
    /\ runs = 1
    /\ "base_zip_name" \in session_state.keys
    /\ ui_message = SessionErrorMessage(Exception("Error"))
    /\ browser.launched = 0
    /\ ~ArchiveAvailable

\* C13: at most one temporary file exists at any time, and none is left when
\* an attempt has ended, by its return or by its failure at any step.
TempFilesAlwaysDeleted ==
    /\ temp_files <= 1
    /\ pc \in {"w_goto_preview", "record"} => temp_files = 0

\* The one session of a run while it is in use.
SessionInUse == [state |-> "open", launched |-> 1, closed |-> 0]

\* Between two steps: the worker is called only from the loop, one call
\* after the other has returned, and no step of a call touches the session.
CallsInTurnOnOneSession ==
    /\ index' # index => pc = "loop" /\ pc' = "w_goto_preview" /\ index' = index + 1
    /\ (pc \in WorkerPcs /\ pc' # "idle") => browser' = browser

\* C14: in a run the browser session is set up once, before the first call
\* of the worker, and closed once, after the last; every call of the worker
\* runs on that session and the calls follow one another.
OneSessionPerRun ==
    /\ [](browser.launched <= 1 /\ browser.closed <= browser.launched)
    /\ [](pc = "setup" => browser.launched = 0 /\ index = 0)
    /\ [](pc \in (WorkerPcs \cup {"loop", "record"}) => browser = SessionInUse)
    /\ [](pc = "idle" => browser.state # "open")
    /\ [](RunCompleted =>
            /\ browser = [state |-> "closed", launched |-> 1, closed |-> 1]
            /\ index = Len(role_list))
    /\ [][CallsInTurnOnOneSession]_vars

\* A completed run of two roles: one launch, one close.
OneSessionPerRun_witness ==
    /\ RunCompleted
    /\ Len(role_list) = 2
    /\ index = 2
    /\ browser.launched = 1
    /\ browser.closed = 1

\* str(exception) of the transport errors of the identity request.
WhoamiExceptionTexts == {resp.text : resp \in {r \in WhoamiResponses : r.kind = "exception"}}

\* C15: the message check_whoami returns for a transport error, which the
\* page shows, holds no text of the exception; every answer other than 200
\* gives status fail, with the status code in the message.
IdentityCheckHidesException ==
    /\ Range(ui_message) \cap WhoamiExceptionTexts = {}
    /\ \A resp \in WhoamiResponses :
          /\ resp.kind = "exception" => check_whoami(resp).status = "fail"
          /\ resp.kind = "response" /\ resp.status_code # 200 =>
                /\ check_whoami(resp).status = "fail"
                /\ \A k \in 1..Len(Digits(resp.status_code)) :
                      Digits(resp.status_code)[k] \in Range(check_whoami(resp).message)

\* C16: for every total >= completed >= 0 and elapsed >= 0 the ETA of lines
\* 417-418 raises nothing and is not negative: it is 0 when elapsed or
\* completed is 0, and (total - completed) / (completed / elapsed) otherwise;
\* in a batch the line never ends the run and the caption is written after
\* every role.
EtaNeverRaises ==
    /\ \A total \in 0..MaxEtaRoles, secs \in 0..MaxElapsed :
          \A completed \in 0..total :
              LET eta == Eta(total, completed, Rate(completed, secs))
              IN  /\ eta.raised = ""
                  /\ eta.num >= 0 /\ eta.den > 0
                  /\ completed = 0 \/ secs = 0 => eta.num = 0
                  /\ completed > 0 /\ secs > 0 =>
                        eta.num * completed = (total - completed) * secs * eta.den
                  /\ Len(format_seconds_to_hms(eta)) = 8
    /\ ui_message # SessionErrorMessage(Exception("ZeroDivisionError"))
    /\ pc = "loop" /\ index > 0 =>
          /\ status_caption # <<>>
          /\ elapsed \in 0..MaxElapsed

\* The first of three roles was recorded while the clock still showed the
\* start time, and the caption was written.
EtaNeverRaises_witness ==
    /\ pc = "loop"
    /\ index = 1
    /\ Len(role_list) = 3
    /\ elapsed = 0
    /\ status_caption # <<>>

\* The positions of s that leave a character in the sanitized text: those of
\* the characters of the class and the first of every run of others.
KeptPositions(s) ==
    {k \in 1..Len(s) : s[k] \in SafeChars \/ k = 1 \/ s[k - 1] \in SafeChars}

\* s with every maximal run of characters outside the class turned into one
\* '_'.
RunsReplaced(s) ==
    LET kept == KeptPositions(s)
    IN  [i \in 1..Cardinality(kept) |->
            LET k == CHOOSE k \in kept : Cardinality({j \in kept : j < k}) = i - 1
            IN  IF s[k] \in SafeChars THEN s[k] ELSE "_"]

\* s with one '_' for every character outside the class.
EachReplaced(s) == [k \in 1..Len(s) |-> IF s[k] \in SafeChars THEN s[k] ELSE "_"]

\* role_name or f'role_{role_id}', of the current role
RoleNameOrFallback ==
    IF CurrentRole.role_name # <<>> THEN CurrentRole.role_name
    ELSE RoleFallbackName(CurrentRole.role_id)

\* The file name of the current role when the substitution gave `safe`.
FileNameOf(safe) ==
    (IF safe # <<>> THEN safe ELSE RoleFallbackName(CurrentRole.role_id))
      \o <<"_">> \o Digits(CurrentRole.role_id) \o <<".", "t", "x", "t">>

StrippedRunsReplaced(name) == RunsReplaced(Strip(name))

\* C17, as the code has it: sanitize_filename strips the whitespace around
\* the name, turns every maximal run of characters outside [A-Za-z0-9_. -]
\* into one '_' and gives the fallback if nothing is left; the space is in
\* the class, so "Teaching Assistant!" gives "Teaching Assistant_", and ""
\* gives the fallback; the file name built from it has no character outside
\* the class.
SanitizeReplacesRuns ==
    /\ sanitize_filename(<<"T", "e", "a", "c", "h", "i", "n", "g", " ", "A", "s", "s",
                           "i", "s", "t", "a", "n", "t", "!">>, <<"x">>)
         = <<"T", "e", "a", "c", "h", "i", "n", "g", " ", "A", "s", "s", "i", "s", "t",
             "a", "n", "t", "_">>
    /\ sanitize_filename(<<>>, RoleFallbackName(5)) = RoleFallbackName(5)
    /\ pc = "record" /\ result.success =>
          /\ result.filename_or_message = FileNameOf(StrippedRunsReplaced(RoleNameOrFallback))
          /\ Range(result.filename_or_message) \subseteq SafeChars

\* The role named "T!?" was exported to "T__5.txt": one '_' for the run "!?",
\* one before the identifier.
SanitizeReplacesRuns_witness ==
    /\ pc = "record"
    /\ result.success
    /\ CurrentRole.role_name = <<"T", "!", "?">>
    /\ result.filename_or_message = <<"T", "_", "_", "5", ".", "t", "x", "t">>

\* C17, as stated: the safe name has one '_' for each character of the name
\* outside the class, and every other character of the name unchanged.
SanitizeReplacesEachCharacter ==
    pc = "record" /\ result.success =>
        result.filename_or_message = FileNameOf(EachReplaced(RoleNameOrFallback))

\* Between two steps: a pause is one of 3 seconds, taken after a failed
\* attempt that is not the last, and what follows it is the navigation to
\* the preview page of the next attempt; a new attempt starts only so.
PauseThenRestart ==
    /\ sleeps' # sleeps =>
          /\ sleeps' = sleeps + RetryPauseSeconds
          /\ attempt_log' = Append(attempt_log, "failed")
          /\ Len(attempt_log') <= number_of_retries
          /\ attempt' = attempt + 1
          /\ pc' = "w_goto_preview"
    /\ attempt' # attempt =>
          /\ attempt' = attempt + 1
          /\ sleeps' = sleeps + RetryPauseSeconds
          /\ pc' = "w_goto_preview"

\* C18: a call pauses 3 seconds once between consecutive attempts and then
\* starts the next attempt at the preview page; it pauses neither before
\* the first attempt nor after a successful nor after the last failed one:
\* a call of n attempts has paused n - 1 times when it returns.
PausesBetweenAttempts ==
    /\ [](pc \in WorkerPcs => sleeps = RetryPauseSeconds * Len(attempt_log))
    /\ [](pc = "record" => sleeps = RetryPauseSeconds * (Len(attempt_log) - 1))
    /\ [][PauseThenRestart]_vars

\* Five retries: the call returned failure after six attempts and five
\* pauses.
PausesBetweenAttempts_witness ==
    /\ number_of_retries = MaxRetriesInput
    /\ pc = "record"
    /\ ~result.success
    /\ Len(attempt_log) = MaxRetriesInput + 1
    /\ sleeps = RetryPauseSeconds * MaxRetriesInput

\* Between two steps of an attempt: the export-file page is navigated
\* exactly from the wait for the Export control, when that wait timed out,
\* and a control that was found leads to the click and from there to the
\* wait for the download link; that wait is entered from the click or from
\* the export-file page only, both of which follow the preview page.
NavigationOnlyWhenControlNotFound ==
    /\ pc' = "w_goto_file" => pc = "w_wait_button"
    /\ pc = "w_click_button" => pc' \in {"w_wait_link", "w_goto_preview", "record", "idle"}
    /\ pc = "w_goto_file" => pc' \in {"w_wait_link", "w_goto_preview", "record", "idle"}
    /\ pc' = "w_wait_link" => pc \in {"w_click_button", "w_goto_file"}
    /\ pc' = "w_wait_button" => pc = "w_goto_preview"
    /\ pc' = "w_click_button" => pc = "w_wait_button"

\* C19: in an attempt the export-file page is navigated if and only if the
\* Export control was not found within its wait after the preview page
\* loaded; a control that is found and clicked leads to no such navigation;
\* both ways continue with the wait for the download link, which is never
\* awaited before the preview page was navigated in the attempt.
ExportFileNavigationIffControlNotFound == [][NavigationOnlyWhenControlNotFound]_vars

\* Between two steps: the loop records for the role the status the worker
\* returned, Success for a returned success and Failed for a returned
\* failure, with the file name or the message it returned.
RecordsWorkerOutcome ==
    Len(export_log') = Len(export_log) + 1 =>
        LET entry == export_log'[Len(export_log')]
        IN  /\ entry.Status = (IF result.success THEN "Success" ELSE "Failed")
            /\ entry.Details = result.filename_or_message
            /\ entry.RoleID = CurrentRole.role_id

\* C20: the status logged for a role is the outcome the worker returned for
\* it: Success if and only if the worker returned success, whatever bytes
\* were downloaded, a file of length zero included, and Failed if and only
\* if it returned failure.
LogStatusIsWorkerOutcome == [][RecordsWorkerOutcome]_vars

\* The counters, the log and the archive agree on the first n roles of the
\* list: n outcomes are counted and logged, the successes are as many as the
\* archive entries and as the Success entries, and the k-th entry is about
\* the k-th role.
TalliesAgreeOn(n) ==
    /\ success_count + failure_count = n
    /\ Len(export_log) = n
    /\ success_count = Len(zip_archive)
    /\ success_count = Len(Successes(export_log))
    /\ failure_count = n - Len(Successes(export_log))
    /\ \A k \in 1..n :
          /\ export_log[k].RoleID = role_list[k].role_id
          /\ export_log[k].RoleName = role_list[k].role_name

\* C21: after each role is processed, the two counters add up to the number
\* of log entries and of roles processed, the success counter is the number
\* of archive entries and of Success entries, and the log follows the order
\* of the role list; while the worker runs for a role, they stand at the
\* roles before it. The stored success count of a completed run is that of
\* its stored log.
CountersTrackLog ==
    /\ pc = "loop" => TalliesAgreeOn(index)
    /\ pc \in (WorkerPcs \cup {"record"}) => TalliesAgreeOn(index - 1)
    /\ RunCompleted =>
          /\ TalliesAgreeOn(Len(role_list))
          /\ session_state.success_count = Len(Successes(session_state.export_log))
          /\ session_state.success_count = Len(session_state.export_zip_buffer)

\* Two roles were processed, one failed and one exported, and the loop is at
\* its head again.
CountersTrackLog_witness ==
    /\ pc = "loop"
    /\ index = 2
    /\ success_count = 1
    /\ failure_count = 1
    /\ export_log[1].Status = "Failed"
    /\ export_log[2].Status = "Success"
    /\ Len(zip_archive) = 1

\* No two positions of the sequence hold the same value of the field.
DistinctIdentifiers(list) ==
    \A i, j \in 1..Len(list) : i # j => list[i].role_id # list[j].role_id

DistinctNames(archive) ==
    \A i, j \in 1..Len(archive) : i # j => archive[i].name # archive[j].name

\* C22: when the identifiers of the role list are pairwise distinct, no two
\* entries of the archive have the same name, during the batch and in the
\* stored archive, also for roles of one display name or of display names
\* that sanitize to the same text; and the file names of two roles differ
\* whenever their identifiers do.
DistinctIdsGiveDistinctNames ==
    /\ \A r1, r2 \in ArchiveRolePool :
          r1.Identifier # r2.Identifier =>
             OutputFilename(r1.Identifier, r1.DisplayName)
               # OutputFilename(r2.Identifier, r2.DisplayName)
    /\ DistinctIdentifiers(role_list) =>
          /\ DistinctNames(zip_archive)
          /\ RunCompleted => DistinctNames(session_state.export_zip_buffer)

\* A completed run of the roles 5 and 7, both named "T!": the archive holds
\* "T__5.txt" and "T__7.txt".
DistinctIdsGiveDistinctNames_witness ==
    /\ RunCompleted
    /\ Len(role_list) = 2
    /\ role_list[1] = [role_id |-> 5, role_name |-> <<"T", "!">>]
    /\ role_list[2] = [role_id |-> 7, role_name |-> <<"T", "!">>]
    /\ Len(session_state.export_zip_buffer) = 2
    /\ session_state.export_zip_buffer[1].name = <<"T", "_", "_", "5", ".", "t", "x", "t">>
    /\ session_state.export_zip_buffer[2].name = <<"T", "_", "_", "7", ".", "t", "x", "t">>

====
